---- MODULE Spec2Model ----
(***************************************************************************)
(* NYOS backend: the CSV importer (routers/data.py, upload_data), the     *)
(* trend analyzer, the statistics summary and the callers of the external  *)
(* generation API (services/gemini_service.py) over the relational store   *)
(* declared in models.py.                                                  *)
(*                                                                         *)
(* Numbers are modelled as integers (CSV numerics and Float columns hold   *)
(* integral values here), dates as integer day numbers.  A column value is *)
(* Null (SQL NULL / Python None) or Some(v).                               *)
(***************************************************************************)
EXTENDS Integers, Sequences, FiniteSets, TLC

VARIABLES db, now, call, prev, trend, reply, stream

vars == <<db, now, call, prev, trend, reply, stream>>

(***************************************************************************)
(* Bounds of the model.                                                    *)
(***************************************************************************)
\* rows per uploaded file
MaxRows == 2
\* upload_data calls per behaviour
MaxCalls == 2

(***************************************************************************)
(* Column values and CSV cells.                                            *)
(***************************************************************************)
Null == <<>>
Some(v) == <<v>>

\* a numeric cell, as pandas parses it
Num(n) == [tag |-> "num", num |-> n, str |-> ""]
\* a text cell
Str(s) == [tag |-> "str", num |-> 0, str |-> s]
\* a parseable date (a date string in the file, or a datetime object); num is the day
Date(d) == [tag |-> "date", num |-> d, str |-> ""]
\* Python None, the implicit default of row.get(col)
NoneCell == [tag |-> "none", num |-> 0, str |-> ""]
\* datetime.utcnow(), the default of the date columns, taken when the row is read
UtcNow == [tag |-> "utcnow", num |-> 0, str |-> ""]

\* Resolve that prefers the last column of the chain the row has
RECURSIVE ResolveLastFirst(_, _, _)
ResolveLastFirst(row, cols, default) ==
    IF cols = <<>> THEN default
    ELSE IF cols[Len(cols)] \in DOMAIN row THEN row[cols[Len(cols)]]
    ELSE ResolveLastFirst(row, SubSeq(cols, 1, Len(cols) - 1), default)

\* row.get(cols[1], row.get(cols[2], ... default)): the first column of the
\* chain that the row has, else the default
RECURSIVE Resolve(_, _, _)
Resolve(row, cols, default) ==
    IF cols = <<>> THEN default
    ELSE IF Head(cols) \in DOMAIN row THEN row[Head(cols)]
    ELSE Resolve(row, Tail(cols), default)

\* float(x): a number converts, a non-numeric string or None raises
ToFloat(cell) ==
    IF cell.tag = "num" THEN [ok |-> TRUE, v |-> Some(cell.num)]
    ELSE [ok |-> FALSE, v |-> Null]

\* pd.to_datetime(x): a date converts to itself, a number is taken as an offset
\* from the epoch, None gives None, an unparseable string raises
ToDatetime(cell) ==
    CASE cell.tag = "date" -> [ok |-> TRUE, v |-> Some(cell.num)]
      [] cell.tag = "num"  -> [ok |-> TRUE, v |-> Some(0)]
      [] cell.tag = "none" -> [ok |-> TRUE, v |-> Null]
      [] OTHER             -> [ok |-> FALSE, v |-> Null]

\* a value bound to a String/Text column as it is
ToText(cell) ==
    CASE cell.tag = "str"  -> [ok |-> TRUE, v |-> Some(cell.str)]
      [] cell.tag = "num"  -> [ok |-> TRUE, v |-> Some(ToString(cell.num))]
      [] cell.tag = "date" -> [ok |-> TRUE, v |-> Some(ToString(cell.num))]
      [] OTHER             -> [ok |-> TRUE, v |-> Null]

Convert(conv, cell) ==
    CASE conv = "float"    -> ToFloat(cell)
      [] conv = "datetime" -> ToDatetime(cell)
      [] OTHER             -> ToText(cell)

(***************************************************************************)
(* The column chains of upload_data, one table per record kind: for each   *)
(* mapped field the source columns in order of preference, the conversion  *)
(* and the default.  The update-existing and the insert branch of a kind   *)
(* use the same chains.                                                    *)
(***************************************************************************)
Chain(cols, conv, default) == [cols |-> cols, conv |-> conv, default |-> default]

BatchColumns ==
    [product_name       |-> Chain(<<"product_name">>, "str", Str("Paracetamol 500mg")),
     manufacturing_date |-> Chain(<<"manufacturing_date">>, "datetime", UtcNow),
     machine            |-> Chain(<<"machine", "tablet_press">>, "str", Str("Unknown")),
     operator           |-> Chain(<<"operator">>, "str", Str("Unknown")),
     compression_force  |-> Chain(<<"compression_force", "main_compression_force">>, "float", Num(0)),
     hardness           |-> Chain(<<"hardness", "ipc_hardness_mean">>, "float", Num(0)),
     weight             |-> Chain(<<"weight", "ipc_weight_mean">>, "float", Num(0)),
     thickness          |-> Chain(<<"thickness", "ipc_thickness_mean">>, "float", Num(0)),
     yield_percent      |-> Chain(<<"yield_percent", "yield_percentage">>, "float", Num(98)),
     status             |-> Chain(<<"status">>, "str", Str("released"))]

QCColumns ==
    [batch_id       |-> Chain(<<"batch_id">>, "str", NoneCell),
     test_date      |-> Chain(<<"test_date", "testing_date">>, "datetime", UtcNow),
     dissolution    |-> Chain(<<"dissolution", "dissolution_mean">>, "float", Num(0)),
     assay          |-> Chain(<<"assay", "assay_result">>, "float", Num(0)),
     hardness       |-> Chain(<<"hardness", "hardness_result">>, "float", Num(0)),
     friability     |-> Chain(<<"friability", "friability_result">>, "float", Num(0)),
     disintegration |-> Chain(<<"disintegration", "disintegration_time">>, "float", Num(0)),
     uniformity     |-> Chain(<<"uniformity", "content_uniformity_rsd">>, "float", Num(0)),
     result         |-> Chain(<<"result", "overall_result">>, "str", Str("pass"))]

ComplaintColumns ==
    [date        |-> Chain(<<"date", "complaint_date">>, "datetime", UtcNow),
     batch_id    |-> Chain(<<"batch_id", "implicated_batch">>, "str", NoneCell),
     category    |-> Chain(<<"category", "complaint_category">>, "str", Str("Unknown")),
     severity    |-> Chain(<<"severity", "severity_level">>, "str", Str("low")),
     description |-> Chain(<<"description", "complaint_description">>, "str", Str("")),
     status      |-> Chain(<<"status">>, "str", Str("open"))]

CAPAColumns ==
    [date        |-> Chain(<<"date", "initiation_date">>, "datetime", UtcNow),
     type        |-> Chain(<<"type", "capa_type">>, "str", Str("corrective")),
     source      |-> Chain(<<"source", "source_type">>, "str", Str("Unknown")),
     description |-> Chain(<<"description">>, "str", Str("")),
     root_cause  |-> Chain(<<"root_cause">>, "str", Str("")),
     status      |-> Chain(<<"status">>, "str", Str("open"))]

\* EquipmentColumns with a deviation that defaults to 1
EquipmentColumnsDeviationOne ==
    [name             |-> Chain(<<"name">>, "str", Str("Unknown")),
     calibration_date |-> Chain(<<"calibration_date">>, "datetime", UtcNow),
     next_calibration |-> Chain(<<"next_calibration">>, "datetime", UtcNow),
     status           |-> Chain(<<"status">>, "str", Str("ok")),
     parameter        |-> Chain(<<"parameter">>, "str", Str("")),
     deviation        |-> Chain(<<"deviation">>, "float", Num(1))]

EquipmentColumns ==
    [name             |-> Chain(<<"name">>, "str", Str("Unknown")),
     calibration_date |-> Chain(<<"calibration_date">>, "datetime", UtcNow),
     next_calibration |-> Chain(<<"next_calibration">>, "datetime", UtcNow),
     status           |-> Chain(<<"status">>, "str", Str("ok")),
     parameter        |-> Chain(<<"parameter">>, "str", Str("")),
     deviation        |-> Chain(<<"deviation">>, "float", Num(0))]

\* the record kinds upload_data has a branch for, and those it upserts by key
Handled == {"batch", "qc", "complaint", "capa", "equipment"}
Keyed == {"batch", "complaint", "capa", "equipment"}

Columns(kind) ==
    CASE kind = "batch"     -> BatchColumns
      [] kind = "qc"        -> QCColumns
      [] kind = "complaint" -> ComplaintColumns
      [] kind = "capa"      -> CAPAColumns
      [] kind = "equipment" -> EquipmentColumns

\* the natural-key column of a kind (also the name of the key field)
KeyColumn(kind) ==
    CASE kind = "batch"     -> "batch_id"
      [] kind = "complaint" -> "complaint_id"
      [] kind = "capa"      -> "capa_id"
      [] kind = "equipment" -> "equipment_id"

\* the prefix of a synthesized key
KeyPrefix(kind) ==
    CASE kind = "batch"     -> "BATCH-"
      [] kind = "complaint" -> "CMP-"
      [] kind = "capa"      -> "CAPA-"
      [] kind = "equipment" -> "EQ-"

\* the table a kind is stored in
Table(kind) ==
    CASE kind = "batch"     -> "batches"
      [] kind = "qc"        -> "qc_results"
      [] kind = "complaint" -> "complaints"
      [] kind = "capa"      -> "capas"
      [] kind = "equipment" -> "equipment"

(***************************************************************************)
(* The request-scoped session: the tables as the transaction sees them     *)
(* (committed rows, with the in-place changes made to loaded objects) and  *)
(* the objects added but not yet flushed.                                  *)
(***************************************************************************)
OpenSession(committed) == [tables |-> committed, pending |-> <<>>]

\* db.add(obj)
Add(s, table, rec) == [s EXCEPT !.pending = Append(@, [table |-> table, rec |-> rec])]

\* flush: every pending object is inserted, in the order it was added; the
\* created_at / uploaded_at column default (datetime.utcnow) is taken at insert
RECURSIVE Flush(_, _)
Flush(s, t) ==
    IF s.pending = <<>> THEN s
    ELSE LET p == Head(s.pending)
             stamp == IF p.table = "uploaded_files" THEN "uploaded_at" ELSE "created_at"
             rec == [p.rec EXCEPT ![stamp] = Some(t)]
         IN Flush([tables  |-> [s.tables EXCEPT ![p.table] = Append(@, rec)],
                   pending |-> Tail(s.pending)], t)

\* what a query issued inside the session does to it before it runs: the
\* session flushes its pending objects, so the query sees the rows staged by
\* earlier rows of the same file
Autoflush(s, t) == Flush(s, t)

\* db.commit(): flush, then the transaction's tables become the committed ones
Commit(s, t) == Flush(s, t).tables

\* the request ends without a commit: the session is closed and its
\* transaction rolled back
CloseSession(committed, s) == committed

\* QueryFirst with a lookup that never finds the key
QueryFirstNone(tbl, keycol, key) == 0

\* .filter(<key column> == key).first(): the position of the first row of the
\* table carrying the key, 0 when there is none
QueryFirst(tbl, keycol, key) ==
    LET hits == {i \in 1..Len(tbl) : tbl[i][keycol] = key}
    IN IF hits = {} THEN 0 ELSE CHOOSE i \in hits : \A j \in hits : i <= j

(***************************************************************************)
(* One row of the file.                                                    *)
(***************************************************************************)
MappedFields(kind) == DOMAIN Columns(kind)

\* the converted value of every mapped field of the row, with whether the
\* conversion succeeds
RowValues(kind, row, t) ==
    [f \in MappedFields(kind) |->
        LET c == Columns(kind)[f]
            x == Resolve(row, c.cols, c.default)
        IN Convert(c.conv, IF x.tag = "utcnow" THEN Date(t) ELSE x)]

\* float() or pd.to_datetime() raises on some field of the row
RowRaises(kind, row, t) ==
    \E f \in MappedFields(kind) : ~RowValues(kind, row, t)[f].ok

\* NaturalKey with the synthesized key counted from 1
NaturalKeyOneBased(kind, row, records_count) ==
    ToText(Resolve(row, <<KeyColumn(kind)>>,
                   Str(KeyPrefix(kind) \o ToString(records_count + 1)))).v

\* row.get("<key column>", f"<PREFIX>-{records_count}")
NaturalKey(kind, row, records_count) ==
    ToText(Resolve(row, <<KeyColumn(kind)>>,
                   Str(KeyPrefix(kind) \o ToString(records_count)))).v

\* UpdateExisting that also stamps created_at with the time of the update
UpdateExistingRestamp(kind, rec, row, t) ==
    [f \in DOMAIN rec |->
        IF f \in DOMAIN Columns(kind)
        THEN Convert(Columns(kind)[f].conv,
                     LET x == Resolve(row, Columns(kind)[f].cols, Columns(kind)[f].default)
                     IN IF x.tag = "utcnow" THEN Date(t) ELSE x).v
        ELSE IF f = "created_at" THEN Some(t) ELSE rec[f]]

\* UpdateExisting that leaves the existing record as it is
UpdateExistingStale(kind, rec, row, t) == rec

\* existing.<field> = ... for every mapped field; the key, the storage
\* position and created_at are not assigned
UpdateExisting(kind, rec, row, t) ==
    [f \in DOMAIN rec |->
        IF f \in MappedFields(kind) THEN RowValues(kind, row, t)[f].v ELSE rec[f]]

\* models.<Kind>(<key>=..., <field>=..., ...) of a keyed kind
NewRecord(kind, key, row, t) ==
    [f \in MappedFields(kind) \cup {KeyColumn(kind), "created_at"} |->
        IF f = KeyColumn(kind) THEN key
        ELSE IF f = "created_at" THEN Null
        ELSE RowValues(kind, row, t)[f].v]

\* models.QCResult(...)
NewQCResult(row, t) ==
    [f \in MappedFields("qc") \cup {"created_at"} |->
        IF f = "created_at" THEN Null ELSE RowValues("qc", row, t)[f].v]

(***************************************************************************)
(* The row loops of upload_data.  i is the 1-based position of the next    *)
(* row, so records_count = i - 1 when the row is reached.                  *)
(***************************************************************************)
\* UpsertRows whose counter for the synthesized keys goes on from the number
\* of records stored
RECURSIVE UpsertRowsContinuing(_, _, _, _, _)
UpsertRowsContinuing(kind, rows, i, s, t) ==
    IF i > Len(rows) THEN [ok |-> TRUE, session |-> s, records_count |-> i - 1]
    ELSE LET row == rows[i]
             s1  == Autoflush(s, t)
             tbl == s1.tables[Table(kind)]
             key == NaturalKey(kind, row, Len(tbl))
             at  == QueryFirst(tbl, KeyColumn(kind), key)
         IN IF RowRaises(kind, row, t)
            THEN [ok |-> FALSE, session |-> s1, records_count |-> i - 1]
            ELSE IF at # 0
            THEN UpsertRowsContinuing(kind, rows, i + 1,
                            [s1 EXCEPT !.tables[Table(kind)][at] =
                                           UpdateExisting(kind, @, row, t)], t)
            ELSE UpsertRowsContinuing(kind, rows, i + 1,
                            Add(s1, Table(kind), NewRecord(kind, key, row, t)), t)

RECURSIVE UpsertRows(_, _, _, _, _)
UpsertRows(kind, rows, i, s, t) ==
    IF i > Len(rows) THEN [ok |-> TRUE, session |-> s, records_count |-> i - 1]
    ELSE LET row == rows[i]
             key == NaturalKey(kind, row, i - 1)
             s1  == Autoflush(s, t)
             tbl == s1.tables[Table(kind)]
             at  == QueryFirst(tbl, KeyColumn(kind), key)
         IN IF RowRaises(kind, row, t)
            THEN [ok |-> FALSE, session |-> s1, records_count |-> i - 1]
            ELSE IF at # 0
            THEN UpsertRows(kind, rows, i + 1,
                            [s1 EXCEPT !.tables[Table(kind)][at] =
                                           UpdateExisting(kind, @, row, t)], t)
            ELSE UpsertRows(kind, rows, i + 1,
                            Add(s1, Table(kind), NewRecord(kind, key, row, t)), t)

\* InsertQCRows that skips a row whose batch_id a stored QC result already has
RECURSIVE InsertQCRowsDedup(_, _, _, _)
InsertQCRowsDedup(rows, i, s, t) ==
    IF i > Len(rows) THEN [ok |-> TRUE, session |-> s, records_count |-> i - 1]
    ELSE IF RowRaises("qc", rows[i], t)
    THEN [ok |-> FALSE, session |-> s, records_count |-> i - 1]
    ELSE IF \E j \in 1..Len(s.tables.qc_results) :
                s.tables.qc_results[j].batch_id = RowValues("qc", rows[i], t).batch_id.v
    THEN InsertQCRowsDedup(rows, i + 1, s, t)
    ELSE InsertQCRowsDedup(rows, i + 1, Add(s, "qc_results", NewQCResult(rows[i], t)), t)

RECURSIVE InsertQCRows(_, _, _, _)
InsertQCRows(rows, i, s, t) ==
    IF i > Len(rows) THEN [ok |-> TRUE, session |-> s, records_count |-> i - 1]
    ELSE IF RowRaises("qc", rows[i], t)
    THEN [ok |-> FALSE, session |-> s, records_count |-> i - 1]
    ELSE InsertQCRows(rows, i + 1, Add(s, "qc_results", NewQCResult(rows[i], t)), t)

\* ImportRows whose chain ends in an else that imports the rows as batches
ImportRowsElseBatch(data_type, rows, s, t) ==
    IF data_type \in Keyed THEN UpsertRows(data_type, rows, 1, s, t)
    ELSE IF data_type = "qc" THEN InsertQCRows(rows, 1, s, t)
    ELSE UpsertRows("batch", rows, 1, s, t)

\* the if/elif chain on data_type; a data_type with no branch runs no loop
ImportRows(data_type, rows, s, t) ==
    IF data_type \in Keyed THEN UpsertRows(data_type, rows, 1, s, t)
    ELSE IF data_type = "qc" THEN InsertQCRows(rows, 1, s, t)
    ELSE [ok |-> TRUE, session |-> s, records_count |-> 0]

\* EndsWith that compares the suffix without its first character (the dot)
EndsWithNoDot(name, suffix) ==
    /\ Len(name) >= Len(suffix) - 1
    /\ SubSeq(name, Len(name) - Len(suffix) + 2, Len(name)) = Tail(suffix)

\* str.endswith on a file name given as its sequence of characters
EndsWith(name, suffix) ==
    /\ Len(name) >= Len(suffix)
    /\ SubSeq(name, Len(name) - Len(suffix) + 1, Len(name)) = suffix

DotCsv == <<".", "c", "s", "v">>

\* NewUploadedFile that records the default data_type of the endpoint
NewUploadedFileDefaultType(filename, data_type, records_count) ==
    [filename |-> filename, data_type |-> "batch",
     records_count |-> records_count, uploaded_at |-> Null]

\* models.UploadedFile(filename=..., data_type=..., records_count=...)
NewUploadedFile(filename, data_type, records_count) ==
    [filename |-> filename, data_type |-> data_type,
     records_count |-> records_count, uploaded_at |-> Null]

\* UploadResponse(filename=..., records_imported=..., data_type=...)
UploadResponse(filename, data_type, records_count) ==
    [filename |-> filename, records_imported |-> records_count, data_type |-> data_type]

NoResponse == [filename |-> <<>>, records_imported |-> 0, data_type |-> ""]

\* upload_data that commits what was staged when a row fails
upload_data_partial(committed, filename, data_type, file, t) ==
    IF ~EndsWith(filename, DotCsv)
    THEN [status |-> "rejected", db |-> committed, response |-> NoResponse,
          file_read |-> FALSE, staged |-> 0]
    ELSE LET r == ImportRows(data_type, file.rows, OpenSession(committed), t)
         IN IF ~r.ok
            THEN [status |-> "failed", db |-> Commit(r.session, t),
                  response |-> NoResponse, file_read |-> TRUE,
                  staged |-> r.records_count]
            ELSE [status |-> "completed",
                  db |-> Commit(Add(r.session, "uploaded_files",
                                    NewUploadedFile(filename, data_type, r.records_count)), t),
                  response |-> UploadResponse(filename, data_type, r.records_count),
                  file_read |-> TRUE, staged |-> r.records_count]

\* the whole handler on the committed store: the outcome ("rejected": HTTP 400,
\* "failed": an exception leaves the handler, "completed"), the committed
\* store afterwards, the response, whether the file content was read, and how
\* many rows were staged when the handler ended
upload_data(committed, filename, data_type, file, t) ==
    IF ~EndsWith(filename, DotCsv)
    THEN [status |-> "rejected", db |-> committed, response |-> NoResponse,
          file_read |-> FALSE, staged |-> 0]
    ELSE LET r == ImportRows(data_type, file.rows, OpenSession(committed), t)
         IN IF ~r.ok
            THEN [status |-> "failed", db |-> CloseSession(committed, r.session),
                  response |-> NoResponse, file_read |-> TRUE,
                  staged |-> r.records_count]
            ELSE [status |-> "completed",
                  db |-> Commit(Add(r.session, "uploaded_files",
                                    NewUploadedFile(filename, data_type, r.records_count)), t),
                  response |-> UploadResponse(filename, data_type, r.records_count),
                  file_read |-> TRUE, staged |-> r.records_count]

(***************************************************************************)
(* analyze_trends (services/gemini_service.py).  Averages are kept exact,  *)
(* as fractions of integers.                                               *)
(***************************************************************************)
\* ORDER BY manufacturing_date: NULL dates first, equal dates in storage order
DateBefore(a, b) ==
    IF a.manufacturing_date = Null THEN FALSE
    ELSE IF b.manufacturing_date = Null THEN FALSE
    ELSE a.manufacturing_date[1] < b.manufacturing_date[1]

NullFirst(a, b) == a.manufacturing_date = Null /\ b.manufacturing_date # Null

RECURSIVE InsertByDate(_, _)
InsertByDate(sorted, b) ==
    IF sorted = <<>> THEN <<b>>
    ELSE LET last == sorted[Len(sorted)]
         IN IF DateBefore(b, last) \/ NullFirst(b, last)
            THEN Append(InsertByDate(SubSeq(sorted, 1, Len(sorted) - 1), b), last)
            ELSE Append(sorted, b)

RECURSIVE OrderByDate(_)
OrderByDate(tbl) ==
    IF tbl = <<>> THEN <<>>
    ELSE InsertByDate(OrderByDate(SubSeq(tbl, 1, Len(tbl) - 1)), tbl[Len(tbl)])

\* [b for b in batches if b.manufacturing_date and b.manufacturing_date >= cutoff]
RECURSIVE InWindow(_, _)
InWindow(batches, cutoff) ==
    IF batches = <<>> THEN <<>>
    ELSE LET b == Head(batches)
         IN (IF b.manufacturing_date # Null /\ b.manufacturing_date[1] >= cutoff
             THEN <<b>> ELSE <<>>) \o InWindow(Tail(batches), cutoff)

\* max(b.manufacturing_date for b in batches if b.manufacturing_date), for
\* batches of which one at least has a date
MaxDate(batches) ==
    LET given == {batches[i].manufacturing_date[1] :
                     i \in {j \in 1..Len(batches) : batches[j].manufacturing_date # Null}}
    IN CHOOSE d \in given : \A e \in given : e <= d

\* Filtered with the window counted back from the current time
FilteredSinceNow(batches, days) == InWindow(batches, now - days)

\* cutoff = max_date - timedelta(days=days) and the list filtered
Filtered(batches, days) == InWindow(batches, MaxDate(batches) - days)

\* getattr(b, parameter, None)
GetAttr(b, parameter) == IF parameter \in DOMAIN b THEN b[parameter] ELSE Null

\* [... for b in filtered if getattr(b, parameter, None) is not None]
RECURSIVE WithValue(_, _)
WithValue(filtered, parameter) ==
    IF filtered = <<>> THEN <<>>
    ELSE (IF GetAttr(Head(filtered), parameter) # Null THEN <<Head(filtered)>> ELSE <<>>)
             \o WithValue(Tail(filtered), parameter)

RECURSIVE Sum(_)
Sum(xs) == IF xs = <<>> THEN 0 ELSE Head(xs) + Sum(Tail(xs))

RECURSIVE MaxOf(_)
MaxOf(xs) ==
    IF Len(xs) = 1 THEN xs[1]
    ELSE LET m == MaxOf(Tail(xs)) IN IF Head(xs) > m THEN Head(xs) ELSE m

RECURSIVE MinOf(_)
MinOf(xs) ==
    IF Len(xs) = 1 THEN xs[1]
    ELSE LET m == MinOf(Tail(xs)) IN IF Head(xs) < m THEN Head(xs) ELSE m

\* round(num / den, 2) in hundredths, for num >= 0 and den > 0
Round2(num, den) == (200 * num + den) \div (2 * den)

\* Change with the split at the upper middle, mid = (len + 1) // 2
ChangeCeilMid(values) ==
    LET n   == Len(values)
        mid == (n + 1) \div 2
        s1  == Sum(SubSeq(values, 1, mid))
        s2  == Sum(SubSeq(values, mid + 1, n))
        num == 100 * (s2 * mid - s1 * (n - mid))
        den == s1 * (n - mid)
    IN IF s1 = 0 THEN [num |-> 0, den |-> 1]
       ELSE IF den > 0 THEN [num |-> num, den |-> den]
       ELSE [num |-> -num, den |-> -den]

\* Change whose zero guard tests last_avg instead of first_avg
ChangeGuardsLast(values) ==
    LET n   == Len(values)
        mid == n \div 2
        s1  == Sum(SubSeq(values, 1, mid))
        s2  == Sum(SubSeq(values, mid + 1, n))
        num == 100 * (s2 * mid - s1 * (n - mid))
        den == s1 * (n - mid)
    IN IF s2 = 0 THEN [num |-> 0, den |-> 1]
       ELSE IF den >= 0 THEN [num |-> num, den |-> den]
       ELSE [num |-> -num, den |-> -den]

\* the percent change ((last_avg - first_avg) / first_avg) * 100 of the two
\* halves split at mid = len // 2, as a fraction num / den with den > 0;
\* 0 when first_avg is 0
Change(values) ==
    LET n   == Len(values)
        mid == n \div 2
        s1  == Sum(SubSeq(values, 1, mid))
        s2  == Sum(SubSeq(values, mid + 1, n))
        \* first_avg = s1 / mid, last_avg = s2 / (n - mid)
        num == 100 * (s2 * mid - s1 * (n - mid))
        den == s1 * (n - mid)
    IN IF s1 = 0 THEN [num |-> 0, den |-> 1]
       ELSE IF den > 0 THEN [num |-> num, den |-> den]
       ELSE [num |-> -num, den |-> -den]

\* Classify that applies the two-halves comparison from 4 values on
ClassifyFromFour(values) ==
    IF Len(values) >= 4
    THEN LET c == Change(values)
         IN IF c.num > 5 * c.den THEN [trend |-> "hausse", alert |-> TRUE]
            ELSE IF c.num < -5 * c.den THEN [trend |-> "baisse", alert |-> TRUE]
            ELSE [trend |-> "stable", alert |-> FALSE]
    ELSE [trend |-> "stable", alert |-> FALSE]

\* trend and alert of a value series: classified only from 5 values on
Classify(values) ==
    IF Len(values) >= 5
    THEN LET c == Change(values)
         IN IF c.num > 5 * c.den THEN [trend |-> "hausse", alert |-> TRUE]
            ELSE IF c.num < -5 * c.den THEN [trend |-> "baisse", alert |-> TRUE]
            ELSE [trend |-> "stable", alert |-> FALSE]
    ELSE [trend |-> "stable", alert |-> FALSE]

TrendError(msg) == [kind |-> "error", error |-> msg, dates |-> <<>>, values |-> <<>>]

\* an exception leaves analyze_trends
TrendRaised(exc) == [kind |-> "raised", exception |-> exc]

\* analyze_trends whose dates are those of every batch in the window, with or
\* without a value for the parameter
analyze_trends_all_dates(tbl, parameter, days) ==
    LET batches == OrderByDate(tbl)
        given   == {batches[i].manufacturing_date[1] :
                       i \in {j \in 1..Len(batches) : batches[j].manufacturing_date # Null}}
    IN IF batches = <<>> THEN TrendError("Pas assez de donnees")
       ELSE IF given = {} THEN TrendRaised("ValueError")
       ELSE LET max_date == CHOOSE d \in given : \A e \in given : e <= d
                cutoff   == max_date - days
                filtered == InWindow(batches, cutoff)
                kept     == WithValue(filtered, parameter)
                values   == [i \in 1..Len(kept) |-> GetAttr(kept[i], parameter)[1]]
                dates    == [i \in 1..Len(filtered) |-> filtered[i].manufacturing_date[1]]
            IN IF Len(filtered) < 2
               THEN TrendError("Pas assez de donnees pour cette periode")
               ELSE IF Len(values) < 2 THEN TrendError("Pas assez de donnees")
               ELSE [kind |-> "result", dates |-> dates, values |-> values,
                     parameter |-> parameter,
                     trend_direction |-> Classify(values).trend,
                     alert |-> Classify(values).alert,
                     average |-> Round2(Sum(values), Len(values)),
                     min |-> 100 * MinOf(values), max |-> 100 * MaxOf(values),
                     count |-> Len(values)]

analyze_trends(tbl, parameter, days) ==
    LET batches == OrderByDate(tbl)
        \* b.manufacturing_date for b in batches if b.manufacturing_date
        given   == {batches[i].manufacturing_date[1] :
                       i \in {j \in 1..Len(batches) : batches[j].manufacturing_date # Null}}
    IN IF batches = <<>> THEN TrendError("Pas assez de donnees")
       \* max() of an empty generator raises
       ELSE IF given = {} THEN TrendRaised("ValueError")
       ELSE LET filtered == Filtered(batches, days)
                kept     == WithValue(filtered, parameter)
                values   == [i \in 1..Len(kept) |-> GetAttr(kept[i], parameter)[1]]
                dates    == [i \in 1..Len(kept) |-> kept[i].manufacturing_date[1]]
            IN IF Len(filtered) < 2
               THEN TrendError("Pas assez de donnees pour cette periode")
               ELSE IF Len(values) < 2 THEN TrendError("Pas assez de donnees")
               ELSE [kind |-> "result", dates |-> dates, values |-> values,
                     parameter |-> parameter,
                     trend_direction |-> Classify(values).trend,
                     alert |-> Classify(values).alert,
                     average |-> Round2(Sum(values), Len(values)),
                     min |-> 100 * MinOf(values), max |-> 100 * MaxOf(values),
                     count |-> Len(values)]

\* the list filtered of a call of analyze_trends; empty when the call ends
\* before building it
FilteredOf(tbl, days) ==
    IF tbl = <<>> \/ \A i \in 1..Len(tbl) : tbl[i].manufacturing_date = Null
    THEN <<>>
    ELSE Filtered(OrderByDate(tbl), days)

(***************************************************************************)
(* The services of gemini_service.py that read the store: what they do to  *)
(* the session, get_full_stats, get_data_context, and the three callers of *)
(* the external generation API.                                            *)
(***************************************************************************)
\* db.query(...).all(): a read; like every query it first flushes the session
QueryAll(s, t) == Autoflush(s, t)

\* analyze_trends_session that writes the date order back to the batches
analyze_trends_session_sorting(s, t) ==
    [QueryAll(s, t) EXCEPT !.tables.batches = OrderByDate(@)]

\* the session after analyze_trends has run on it: its one use of db is the
\* query of line 152
analyze_trends_session(s, t) == QueryAll(s, t)

\* the session after get_full_stats has run on it: the five queries of lines
\* 216-220
get_full_stats_session(s, t) ==
    QueryAll(QueryAll(QueryAll(QueryAll(QueryAll(s, t), t), t), t), t)

\* the session has nothing staged and shows the committed tables unchanged
Clean(committed, s) == s.pending = <<>> /\ s.tables = committed

\* obj.<attr> on a loaded record: an attribute the model class does not
\* declare raises AttributeError
ReadAttr(rec, attr) ==
    IF attr \in DOMAIN rec THEN [ok |-> TRUE, v |-> rec[attr]]
    ELSE [ok |-> FALSE, v |-> Null]

\* the truth value of a numeric column value: None and 0 are false
TruthyNumber(v) == v # Null /\ v[1] # 0

\* the truth value of a text column value: None and "" are false
TruthyText(v) == v # Null /\ v[1] # ""

\* the characters of the status texts
Chars(text) ==
    CASE text = "open"               -> <<"o", "p", "e", "n">>
      [] text = "OPEN"               -> <<"O", "P", "E", "N">>
      [] text = "reopened"           -> <<"r", "e", "o", "p", "e", "n", "e", "d">>
      [] text = "closed"             -> <<"c", "l", "o", "s", "e", "d">>
      [] text = "Closed - Effective" ->
             <<"C", "l", "o", "s", "e", "d", " ", "-", " ",
               "E", "f", "f", "e", "c", "t", "i", "v", "e">>
      [] text = "In Progress"        ->
             <<"I", "n", " ", "P", "r", "o", "g", "r", "e", "s", "s">>
      [] OTHER                       -> <<>>

\* str.lower(), character by character
LowerChar(c) ==
    CASE c = "C" -> "c" [] c = "E" -> "e" [] c = "I" -> "i"
      [] c = "N" -> "n" [] c = "O" -> "o" [] c = "P" -> "p"
      [] OTHER -> c

Lower(cs) == [i \in 1..Len(cs) |-> LowerChar(cs[i])]

\* sub in cs
Contains(cs, sub) ==
    \E i \in 0..(Len(cs) - Len(sub)) : SubSeq(cs, i + 1, i + Len(sub)) = sub

\* round(sum(b.f for b in batches if b.f) / max(len([b for b in batches if b.f]), 1), 2)
\* if batches else 0, in hundredths: the values that are None or 0 are left out
MeanOfTruthy(batches, field) ==
    LET kept == {i \in 1..Len(batches) : TruthyNumber(batches[i][field])}
        n    == Cardinality(kept)
        vals == [i \in 1..Len(batches) |->
                    IF i \in kept THEN batches[i][field][1] ELSE 0]
    IN IF batches = <<>> THEN 0
       ELSE Round2(Sum(vals), IF n > 1 THEN n ELSE 1)

\* the condition of the comprehension of lines 224-233 on one QC result; ok is
\* FALSE when reading q.assay_percent or q.dissolution_mean raises
QCPasses(q) ==
    LET a == ReadAttr(q, "assay_percent")
        d == ReadAttr(q, "dissolution_mean")
    IN IF ~a.ok THEN [ok |-> FALSE, v |-> FALSE]
       ELSE IF ~TruthyNumber(a.v) THEN [ok |-> TRUE, v |-> FALSE]
       ELSE IF ~d.ok THEN [ok |-> FALSE, v |-> FALSE]
       ELSE [ok |-> TRUE,
             v  |-> TruthyNumber(d.v) /\ 95 <= a.v[1] /\ a.v[1] <= 105 /\ d.v[1] >= 80]

\* round(qc_pass_count / max(len(qc_results), 1) * 100, 1) if qc_results else 0,
\* in tenths
QCPassRate(qc_pass_count, total) ==
    IF total = 0 THEN 0 ELSE (2000 * qc_pass_count + total) \div (2 * total)

\* c.status and c.status.lower() == "open"
ComplaintOpen(c) ==
    TruthyText(c.status) /\ Lower(Chars(c.status[1])) = <<"o", "p", "e", "n">>

\* CAPAOpen by exact comparison with "closed"
CAPAOpenExact(c) ==
    TruthyText(c.status) /\ Lower(Chars(c.status[1])) # <<"c", "l", "o", "s", "e", "d">>

\* c.status and "closed" not in c.status.lower()
CAPAOpen(c) ==
    TruthyText(c.status)
        /\ ~Contains(Lower(Chars(c.status[1])), <<"c", "l", "o", "s", "e", "d">>)

ServiceRaised(exc) == [kind |-> "raised", exception |-> exc]

\* get_full_stats on the tables the session shows: the summary, or the
\* exception that leaves the function.  The per-machine and per-category
\* groupings are kept as the labels they are keyed by.
get_full_stats(tables) ==
    LET batches    == tables.batches
        qc_results == tables.qc_results
        complaints == tables.complaints
        capas      == tables.capas
        equipment  == tables.equipment
        passes     == {i \in 1..Len(qc_results) : QCPasses(qc_results[i]).v}
    IN \* lines 224-233
       IF \E i \in 1..Len(qc_results) : ~QCPasses(qc_results[i]).ok
       THEN ServiceRaised("AttributeError")
       \* line 266: e.result
       ELSE IF \E i \in 1..Len(equipment) : ~ReadAttr(equipment[i], "result").ok
       THEN ServiceRaised("AttributeError")
       \* line 270: b.tablet_press_id
       ELSE IF \E i \in 1..Len(batches) : ~ReadAttr(batches[i], "tablet_press_id").ok
       THEN ServiceRaised("AttributeError")
       ELSE [kind            |-> "stats",
             total_batches   |-> Len(batches),
             avg_hardness    |-> MeanOfTruthy(batches, "hardness"),
             avg_yield       |-> MeanOfTruthy(batches, "yield_percent"),
             machines        |-> {ReadAttr(batches[i], "tablet_press_id").v :
                                     i \in 1..Len(batches)},
             qc_pass_rate    |-> QCPassRate(Cardinality(passes), Len(qc_results)),
             complaints_by_category |->
                 {IF TruthyText(complaints[i].category) THEN complaints[i].category
                  ELSE Some("Unknown") : i \in 1..Len(complaints)},
             complaints_open |->
                 Cardinality({i \in 1..Len(complaints) : ComplaintOpen(complaints[i])}),
             capas_open      |->
                 Cardinality({i \in 1..Len(capas) : CAPAOpen(capas[i])}),
             equipment_due   |->
                 Cardinality({i \in 1..Len(equipment) :
                                 ReadAttr(equipment[i], "result").v = Some("Fail")})]

\* get_data_context: the context text, or the exception that leaves the
\* function: the loops over the batches (line 52), the QC results (line 57),
\* the CAPAs (line 87) and the equipment (line 92) read attributes the model
\* classes do not declare
get_data_context(tables) ==
    IF \/ \E i \in 1..Len(tables.batches) :
              ~ReadAttr(tables.batches[i], "tablet_press_id").ok
       \/ \E i \in 1..Len(tables.qc_results) :
              ~ReadAttr(tables.qc_results[i], "assay_percent").ok
       \/ \E i \in 1..Len(tables.capas) :
              ~ReadAttr(tables.capas[i], "risk_score").ok
       \/ \E i \in 1..Len(tables.equipment) :
              ~ReadAttr(tables.equipment[i], "result").ok
    THEN [ok |-> FALSE, exc |-> "AttributeError", text |-> ""]
    ELSE [ok |-> TRUE, exc |-> "", text |-> "context"]

\* what the external generation API does with a call: it returns a response
\* with text, raises, or returns a response whose .text raises ValueError
ApiOutcomes == {"text", "raises", "no_text"}

\* the classes `except Exception` catches, among them every exception the
\* bodies below raise
Exceptions == {"AttributeError", "ValueError", "GoogleAPIError"}

\* model.generate_content(prompt) followed by response.text
generate_content(api) ==
    CASE api = "text"    -> [ok |-> TRUE, exc |-> "", text |-> "answer"]
      [] api = "raises"  -> [ok |-> FALSE, exc |-> "GoogleAPIError", text |-> ""]
      [] api = "no_text" -> [ok |-> FALSE, exc |-> "ValueError", text |-> ""]

\* the outcome of a try body: whether it completed, its value or exception,
\* and how many times it called the generation API
Completed(text, api_calls) ==
    [ok |-> TRUE, exc |-> "", text |-> text, api_calls |-> api_calls]
Failed(exc, api_calls) ==
    [ok |-> FALSE, exc |-> exc, text |-> "", api_calls |-> api_calls]

\* try: <body> / except Exception as e: return f"<message>{str(e)}"
ExceptReturn(body, message) ==
    IF body.ok
    THEN [kind |-> "returned", text |-> body.text, error |-> FALSE,
          exception |-> "", api_calls |-> body.api_calls]
    ELSE IF body.exc \in Exceptions
    THEN [kind |-> "returned", text |-> message, error |-> TRUE,
          exception |-> body.exc, api_calls |-> body.api_calls]
    ELSE [kind |-> "raised", text |-> "", error |-> TRUE,
          exception |-> body.exc, api_calls |-> body.api_calls]

\* chat_with_gemini with the context built before the try
chat_with_gemini_open_context(tables, api) ==
    IF ~get_data_context(tables).ok
    THEN [kind |-> "raised", text |-> "", error |-> TRUE,
          exception |-> get_data_context(tables).exc, api_calls |-> 0]
    ELSE LET r == generate_content(api)
         IN ExceptReturn(IF r.ok THEN Completed(r.text, 1) ELSE Failed(r.exc, 1),
                         "Erreur de connexion a Gemini")

chat_with_gemini(tables, api) ==
    LET context == get_data_context(tables)
        r       == generate_content(api)
    IN ExceptReturn(IF ~context.ok THEN Failed(context.exc, 0)
                    ELSE IF ~r.ok THEN Failed(r.exc, 1)
                    ELSE Completed(r.text, 1),
                    "Erreur de connexion a Gemini")

generate_report(tables, api) ==
    LET context == get_data_context(tables)
        stats   == get_full_stats(tables)
        r       == generate_content(api)
    IN ExceptReturn(IF ~context.ok THEN Failed(context.exc, 0)
                    ELSE IF stats.kind = "raised" THEN Failed(stats.exception, 0)
                    ELSE IF ~r.ok THEN Failed(r.exc, 1)
                    ELSE Completed(r.text, 1),
                    "Erreur lors de la generation du rapport")

(***************************************************************************)
(* generate_summary_stream: an async generator.  pc is where it is         *)
(* suspended: "created" (not started), "text" / "done" / "error" (at the   *)
(* yield of line 332 / 333 / 335), "closed" (exhausted).  events are the   *)
(* events yielded so far, arrived the texts of the chunks received from    *)
(* the API so far.                                                         *)
(***************************************************************************)
\* chunks per streamed response
MaxChunks == 3

ChunkTexts == {"a", "b"}

\* f"data: {json.dumps({...})}\n\n"
TextEvent(text) == [type |-> "text", text |-> text]
DoneEvent == [type |-> "done", text |-> ""]
ErrorEvent(exc) == [type |-> "error", text |-> exc]

StreamCreated ==
    [pc |-> "created", events |-> <<>>, arrived |-> <<>>, api_calls |-> 0,
     failed |-> FALSE]

\* StreamFail that ends the stream with the completion marker
StreamFailAsDone(st, exc) ==
    [st EXCEPT !.events = Append(@, DoneEvent), !.pc = "done", !.failed = TRUE]

\* an exception inside the try: the except clause yields the error event
StreamFail(st, exc) ==
    [st EXCEPT !.events = Append(@, ErrorEvent(exc)), !.pc = "error", !.failed = TRUE]

\* the for loop up to its next yield: `skip` chunks with empty text arrive
\* and are passed over, then a chunk with text arrives ("a", "b"), or the
\* response ends ("end"), or the iteration raises ("raise"), or a chunk
\* arrives whose .text raises ("no_text")
StreamLoop(st, skip, next) ==
    LET st1 == [st EXCEPT !.arrived = @ \o [i \in 1..skip |-> ""]]
    IN CASE next \in ChunkTexts ->
                [st1 EXCEPT !.arrived = Append(@, next),
                            !.events = Append(@, TextEvent(next)), !.pc = "text"]
         [] next = "end" ->
                [st1 EXCEPT !.events = Append(@, DoneEvent), !.pc = "done"]
         [] next = "raise" -> StreamFail(st1, "GoogleAPIError")
         [] next = "no_text" -> StreamFail(st1, "ValueError")

\* one resumption of the generator (__anext__), up to its next yield or its end
stream_next(st, tables, api, skip, next) ==
    CASE st.pc = "created" ->
            IF ~get_data_context(tables).ok
            THEN StreamFail(st, get_data_context(tables).exc)
            ELSE IF get_full_stats(tables).kind = "raised"
            THEN StreamFail(st, get_full_stats(tables).exception)
            ELSE IF api = "raises"
            THEN StreamFail([st EXCEPT !.api_calls = 1], "GoogleAPIError")
            ELSE StreamLoop([st EXCEPT !.api_calls = 1], skip, next)
      [] st.pc = "text" -> StreamLoop(st, skip, next)
      [] st.pc \in {"done", "error"} -> [st EXCEPT !.pc = "closed"]

(***************************************************************************)
(* The uploads the environment makes: file names, declared kinds and CSV   *)
(* files of at most MaxRows rows.                                          *)
(***************************************************************************)
CsvName  == <<"a", ".", "c", "s", "v">>
FileNames == {CsvName,
              <<"b", ".", "c", "s", "v">>,
              <<"a", ".", "t", "x", "t">>,
              <<"a", ".", "C", "S", "V">>,
              <<"c", "s", "v">>}

\* a declared kind upload_data has no branch for (models.DataType lists it)
OtherType == "environmental"
DataTypes == Handled \cup {OtherType}

\* the number a numeric column carries in the generated rows (plus 100 * seed),
\* different for every column
CellBase ==
    [compression_force |-> 1, main_compression_force |-> 2, hardness |-> 3,
     ipc_hardness_mean |-> 4, weight |-> 5, ipc_weight_mean |-> 6, thickness |-> 7,
     ipc_thickness_mean |-> 8, yield_percent |-> 9, yield_percentage |-> 10,
     dissolution |-> 11, dissolution_mean |-> 12, assay |-> 13, assay_result |-> 14,
     hardness_result |-> 15, friability |-> 16, friability_result |-> 17,
     disintegration |-> 18, disintegration_time |-> 19, uniformity |-> 20,
     content_uniformity_rsd |-> 21, deviation |-> 22]

Seeds == {1, 2}

\* the key values files carry: the first is also the first synthesized key
KeysOf(kind) ==
    IF kind \in Keyed THEN {KeyPrefix(kind) \o "0", "K7"} ELSE {"BATCH-0", "K7"}

Range(f) == {f[i] : i \in DOMAIN f}

\* the name of the column holding the key in a file of the kind
KeyColumnOf(kind) == IF kind \in Keyed THEN KeyColumn(kind) ELSE "batch_id"

\* the conversion upload_data applies to a column of a file of the kind
ConvOf(kind, col) ==
    LET fs == {f \in MappedFields(kind) : col \in Range(Columns(kind)[f].cols)}
    IN IF fs = {} THEN "str" ELSE Columns(kind)[CHOOSE f \in fs : TRUE].conv

\* the fields of a kind resolved from a preferred and a fallback column
AliasFields(kind) == {f \in MappedFields(kind) : Len(Columns(kind)[f].cols) = 2}

\* the fallback column of every such field
FallbackColumns(kind) == {Columns(kind)[f].cols[2] : f \in AliasFields(kind)}

\* the cell of a generated row: the key in the key column; elsewhere a value
\* that depends on the column and the seed; a bad row has text in every
\* numeric column
CellOf(kind, col, key, seed, bad) ==
    IF col = KeyColumnOf(kind) THEN Str(key)
    ELSE CASE ConvOf(kind, col) = "float" ->
                  IF bad THEN Str("abc") ELSE Num(100 * seed + CellBase[col])
           [] ConvOf(kind, col) = "datetime" ->
                  Date(10 * seed + (IF col \in FallbackColumns(kind) THEN 1 ELSE 0))
           [] OTHER -> Str(col \o "-" \o ToString(seed))

MakeRow(kind, header, key, seed, bad) ==
    [col \in header |-> CellOf(kind, col, key, seed, bad)]

\* the preferred column of every mapped field
PreferredColumns(kind) == {Columns(kind)[f].cols[1] : f \in MappedFields(kind)}

\* the headers files come with: every preferred column and the key column,
\* the same without the key column, and the key column alone
Headers(kind) ==
    {PreferredColumns(kind) \cup {KeyColumnOf(kind)},
     PreferredColumns(kind) \ {KeyColumnOf(kind)},
     {KeyColumnOf(kind)}}

RowsOf(kind, header) ==
    {MakeRow(kind, header, key, seed, FALSE) : key \in KeysOf(kind), seed \in Seeds}
        \cup {MakeRow(kind, header, "K7", 1, TRUE)}

FilesOf(kind) ==
    UNION {{[cols |-> h, rows |-> rs] : rs \in [1..n -> RowsOf(kind, h)]} :
              h \in Headers(kind), n \in 0..MaxRows}

\* the headers of the other file conventions: every preferred column with
\* every fallback column and the key column, and the fallback columns with
\* the key column
AliasHeaders(kind) ==
    {PreferredColumns(kind) \cup FallbackColumns(kind) \cup {KeyColumnOf(kind)},
     FallbackColumns(kind) \cup {KeyColumnOf(kind)}}

\* the files of those conventions, of one row per key at most
AliasFilesOf(kind) ==
    UNION {{[cols |-> h, rows |-> rs] :
               rs \in [1..n -> {MakeRow(kind, h, key, 1, FALSE) : key \in KeysOf(kind)}]} :
              h \in AliasHeaders(kind), n \in 1..MaxRows}

\* one well-formed file of every length, for the uploads whose file content
\* is not what the call turns on
SampleFiles ==
    {[cols |-> h, rows |-> [i \in 1..n |-> MakeRow("batch", h, "K7", 1, FALSE)]] :
        h \in {PreferredColumns("batch") \cup {"batch_id"}}, n \in 0..MaxRows}

Inputs ==
    UNION {{[filename |-> CsvName, data_type |-> k, file |-> f] :
               f \in FilesOf(k) \cup AliasFilesOf(k)} :
              k \in Handled}
    \cup {[filename |-> fn, data_type |-> k, file |-> f] :
            fn \in FileNames, k \in {"batch", OtherType}, f \in SampleFiles}

(***************************************************************************)
(* State.  db is the committed store; now is the clock (datetime.utcnow);  *)
(* call records the last upload_data call with the store it started from,  *)
(* prev the call before it; trend is the last result of analyze_trends;    *)
(* reply is the last result of get_full_stats, chat_with_gemini or         *)
(* generate_report; stream is the generate_summary_stream generator.       *)
(***************************************************************************)
EmptyDb ==
    [batches |-> <<>>, qc_results |-> <<>>, complaints |-> <<>>, capas |-> <<>>,
     equipment |-> <<>>, uploaded_files |-> <<>>]

NoFile == [cols |-> {}, rows |-> <<>>]

NoCall ==
    [status |-> "none", filename |-> <<>>, data_type |-> "", file |-> NoFile,
     response |-> NoResponse, file_read |-> FALSE, staged |-> 0, at |-> 0,
     pre |-> EmptyDb]

NoTrend == [kind |-> "none"]

NoReply == [kind |-> "none"]

\* no generator has been created
NoStream ==
    [pc |-> "none", events |-> <<>>, arrived |-> <<>>, api_calls |-> 0,
     failed |-> FALSE]

Init ==
    /\ db = EmptyDb
    /\ now = 0
    /\ call = NoCall
    /\ prev = NoCall
    /\ trend = NoTrend
    /\ reply = NoReply
    /\ stream = NoStream

\* POST /data/upload
UploadData ==
    \E inp \in Inputs :
        /\ now < MaxCalls
        /\ LET r == upload_data(db, inp.filename, inp.data_type, inp.file, now)
           IN /\ db' = r.db
              /\ call' = [status |-> r.status, filename |-> inp.filename,
                          data_type |-> inp.data_type, file |-> inp.file,
                          response |-> r.response, file_read |-> r.file_read,
                          staged |-> r.staged, at |-> now, pre |-> db]
        /\ prev' = [call EXCEPT !.pre = EmptyDb]
        /\ now' = now + 1
        /\ UNCHANGED <<trend, reply, stream>>

Next == UploadData

Spec == Init /\ [][Next]_vars

(***************************************************************************)
(* The trend analyzer on its own: it starts from a batches table drawn     *)
(* from TrendStores and is called with a parameter and a window.           *)
(***************************************************************************)
\* batches per table
MaxBatches == 5

\* the hardness values of the batches inside the window
TrendValues == {Null, Some(0), Some(94), Some(100), Some(106)}

\* a stored batch with the given manufacturing date and hardness; the other
\* numeric fields hold the importer's defaults
TrendBatch(i, date, hardness) ==
    [batch_id |-> Some("T" \o ToString(i)), product_name |-> Some("Paracetamol 500mg"),
     manufacturing_date |-> date, machine |-> Some("Unknown"),
     operator |-> Some("Unknown"), compression_force |-> Some(0),
     hardness |-> hardness, weight |-> Some(0), thickness |-> Some(0),
     yield_percent |-> Some(98), status |-> Some("released"),
     created_at |-> Some(0)]

\* the tables: at most MaxBatches rows stored latest date first (the query has
\* to reorder them): k rows dated 41, then m - k dated 40, then o dated 1 (long
\* before the others), then r - o without a date; a row dated 40 or 41 has any
\* hardness of TrendValues, another row hardness 100
TrendStore(m, k, r, o, h) ==
    [i \in 1..(m + r) |->
        TrendBatch(i,
                   IF i <= k THEN Some(41)
                   ELSE IF i <= m THEN Some(40)
                   ELSE IF i <= m + o THEN Some(1) ELSE Null,
                   IF i <= m THEN h[i] ELSE Some(100))]

Parameters == {"hardness", "weight"}
\* days is any integer of the query string: the default, none, and a negative
Windows == {30, 0, -1}

InitTrend ==
    /\ \E m \in 0..MaxBatches :
         \E r \in 0..(MaxBatches - m), k \in 0..m :
            \E o \in 0..r, h \in [1..m -> TrendValues] :
                db = [EmptyDb EXCEPT !.batches = TrendStore(m, k, r, o, h)]
    /\ now = 0
    /\ call = NoCall
    /\ prev = NoCall
    /\ trend = NoTrend
    /\ reply = NoReply
    /\ stream = NoStream

\* GET /data/trends/{parameter}?days=...: analyze_trends on the request's
\* session, which is closed without a commit; clean tells whether the call
\* left the session as it found it, filtered is the list of that name
AnalyzeTrends ==
    \E parameter \in Parameters, days \in Windows :
        LET s == analyze_trends_session(OpenSession(db), now)
        IN /\ trend' = [result |-> analyze_trends(s.tables.batches, parameter, days),
                        parameter |-> parameter, days |-> days, kind |-> "called",
                        clean |-> Clean(db, s),
                        filtered |-> FilteredOf(s.tables.batches, days)]
           /\ db' = CloseSession(db, s)
           /\ UNCHANGED <<now, call, prev, reply, stream>>

NextTrend == AnalyzeTrends

SpecTrend == InitTrend /\ [][NextTrend]_vars

(***************************************************************************)
(* The statistics, chat and report services with the trend analyzer, over  *)
(* stores of at most MaxStored records per table.                          *)
(***************************************************************************)
\* records per table
MaxStored == 2

\* a stored QC result with the given assay and dissolution
StoredQC(i, assay, dissolution) ==
    [batch_id |-> Some("T" \o ToString(i)), test_date |-> Some(40),
     dissolution |-> dissolution, assay |-> assay, hardness |-> Some(0),
     friability |-> Some(0), disintegration |-> Some(0), uniformity |-> Some(0),
     result |-> Some("pass"), created_at |-> Some(0)]

\* four QC results of which the first two are within the specifications
\* (assay in [95, 105], dissolution >= 80); the stored result flags say pass
QCSample ==
    <<StoredQC(1, Some(100), Some(85)), StoredQC(2, Some(95), Some(80)),
      StoredQC(3, Some(94), Some(85)), StoredQC(4, Some(100), Some(79))>>

StoredComplaint(i, status) ==
    [complaint_id |-> Some("CMP-" \o ToString(i)), date |-> Some(40),
     batch_id |-> Null, category |-> Some("Unknown"), severity |-> Some("low"),
     description |-> Some(""), status |-> status, created_at |-> Some(0)]

StoredCAPA(i, status) ==
    [capa_id |-> Some("CAPA-" \o ToString(i)), date |-> Some(40),
     type |-> Some("corrective"), source |-> Some("Unknown"),
     description |-> Some(""), root_cause |-> Some(""), status |-> status,
     created_at |-> Some(0)]

StoredEquipment(i) ==
    [equipment_id |-> Some("EQ-" \o ToString(i)), name |-> Some("Unknown"),
     calibration_date |-> Some(40), next_calibration |-> Some(40),
     status |-> Some("ok"), parameter |-> Some(""), deviation |-> Some(0),
     created_at |-> Some(0)]

ComplaintStatuses == {Null, Some("open"), Some("OPEN"), Some("reopened")}
CAPAStatuses == {Null, Some("closed"), Some("Closed - Effective"), Some("In Progress")}
StoredHardness == {Null, Some(0), Some(100)}

\* a store of complaints and CAPAs with the given statuses
CaseStore(cs, ks) ==
    [EmptyDb EXCEPT !.complaints = [i \in DOMAIN cs |-> StoredComplaint(i, cs[i])],
                    !.capas = [i \in DOMAIN ks |-> StoredCAPA(i, ks[i])]]

\* a store of batches with the given hardness values (stored latest date
\* first), with the QC sample or no QC result, e equipment records and one
\* open complaint
PlantStore(hs, qc, e) ==
    [EmptyDb EXCEPT !.batches = [i \in DOMAIN hs |-> TrendBatch(i, Some(50 - i), hs[i])],
                    !.qc_results = qc,
                    !.equipment = [i \in 1..e |-> StoredEquipment(i)],
                    !.complaints = <<StoredComplaint(1, Some("open"))>>]

InitService ==
    /\ \/ \E nc, nk \in 0..MaxStored :
             \E cs \in [1..nc -> ComplaintStatuses], ks \in [1..nk -> CAPAStatuses] :
                 db = CaseStore(cs, ks)
       \/ \E nb \in 0..MaxStored, qc \in {<<>>, QCSample}, e \in 0..1 :
             \E hs \in [1..nb -> StoredHardness] :
                 db = PlantStore(hs, qc, e)
    /\ now = 0
    /\ call = NoCall
    /\ prev = NoCall
    /\ trend = NoTrend
    /\ reply = NoReply
    /\ stream = NoStream

\* a call of get_full_stats on a request's session
GetFullStats ==
    LET s == get_full_stats_session(OpenSession(db), now)
    IN /\ reply' = [kind |-> "called", op |-> "get_full_stats", api |-> "",
                    result |-> get_full_stats(s.tables), clean |-> Clean(db, s)]
       /\ db' = CloseSession(db, s)
       /\ UNCHANGED <<now, call, prev, trend, stream>>

\* a call of chat_with_gemini on a request's session
ChatWithGemini ==
    \E api \in ApiOutcomes :
        LET s == QueryAll(OpenSession(db), now)
        IN /\ reply' = [kind |-> "called", op |-> "chat_with_gemini", api |-> api,
                        result |-> chat_with_gemini(s.tables, api),
                        clean |-> Clean(db, s)]
           /\ db' = CloseSession(db, s)
           /\ UNCHANGED <<now, call, prev, trend, stream>>

\* a call of generate_report on a request's session
GenerateReport ==
    \E api \in ApiOutcomes :
        LET s == get_full_stats_session(QueryAll(OpenSession(db), now), now)
        IN /\ reply' = [kind |-> "called", op |-> "generate_report", api |-> api,
                        result |-> generate_report(s.tables, api),
                        clean |-> Clean(db, s)]
           /\ db' = CloseSession(db, s)
           /\ UNCHANGED <<now, call, prev, trend, stream>>

NextService == AnalyzeTrends \/ GetFullStats \/ ChatWithGemini \/ GenerateReport

SpecService == InitService /\ [][NextService]_vars

(***************************************************************************)
(* The narrative summary stream, driven by its consumer one event at a     *)
(* time.                                                                   *)
(***************************************************************************)
InitStream ==
    /\ \E nc \in 0..MaxStored, nb \in 0..1 :
          db = [EmptyDb EXCEPT
                   !.complaints = [i \in 1..nc |-> StoredComplaint(i, Some("open"))],
                   !.batches = [i \in 1..nb |-> TrendBatch(i, Some(40), Some(100))]]
    /\ now = 0
    /\ call = NoCall
    /\ prev = NoCall
    /\ trend = NoTrend
    /\ reply = NoReply
    /\ stream = NoStream

\* generate_summary_stream(db) is called: the generator object is created,
\* its body has not started
StreamStart ==
    /\ stream.pc = "none"
    /\ stream' = StreamCreated
    /\ UNCHANGED <<db, now, call, prev, trend, reply>>

\* the consumer asks for the next event
StreamNext ==
    \E api \in ApiOutcomes, skip \in 0..1, next \in ChunkTexts \cup {"end", "raise", "no_text"} :
        /\ stream.pc \in {"created", "text", "done", "error"}
        /\ Len(stream.arrived) + skip + (IF next \in {"end", "raise"} THEN 0 ELSE 1)
               <= MaxChunks
        /\ stream' = stream_next(stream, db, api, skip, next)
        /\ UNCHANGED <<db, now, call, prev, trend, reply>>

NextStream == StreamStart \/ StreamNext

SpecStream == InitStream /\ [][NextStream]_vars

(***************************************************************************)
(* Properties of the importer (specification Spec).                        *)
(***************************************************************************)
Prefixes == [batch |-> "BATCH-", complaint |-> "CMP-", capa |-> "CAPA-", equipment |-> "EQ-"]

\* the natural key of row i of a file imported as the kind: the key column's
\* text, or the kind's prefix with the 0-based row position
KeyOfRow(kind, file, i) ==
    IF KeyColumn(kind) \in file.cols
    THEN Some(file.rows[i][KeyColumn(kind)].str)
    ELSE Some(Prefixes[kind] \o ToString(i - 1))

\* the positions of the stored records of the kind that carry the key
Holders(store, kind, key) ==
    {j \in 1..Len(store[Table(kind)]) : store[Table(kind)][j][KeyColumn(kind)] = key}

\* the last row of the file that carries the key of row i
LastRowWith(kind, file, i) ==
    CHOOSE l \in 1..Len(file.rows) :
        /\ KeyOfRow(kind, file, l) = KeyOfRow(kind, file, i)
        /\ \A m \in (l + 1)..Len(file.rows) :
               KeyOfRow(kind, file, m) # KeyOfRow(kind, file, i)

\* the stored record at position j has, in every mapped field, the value the
\* row gives when imported at time t
HoldsRow(store, kind, j, row, t) ==
    \A f \in MappedFields(kind) :
        store[Table(kind)][j][f] = RowValues(kind, row, t)[f].v

\* the last two calls completed and imported the same rows as the same keyed kind
SameFileTwice ==
    /\ call.status = "completed"
    /\ prev.status = "completed"
    /\ call.data_type \in Keyed
    /\ prev.data_type = call.data_type
    /\ prev.file = call.file

AuditRecord(filename, data_type, n, t) ==
    [filename |-> filename, data_type |-> data_type, records_count |-> n,
     uploaded_at |-> Some(t)]

\* C3: a call that fails leaves the committed store as it was before the call
\* (no new record, no changed field, no audit record); a call that completes
\* has committed the audit record together with a record for every row.
C3_AllOrNothing ==
    /\ call.status = "failed" => db = call.pre
    /\ call.status = "completed" =>
          /\ Len(db.uploaded_files) = Len(call.pre.uploaded_files) + 1
          /\ call.data_type \in Keyed =>
                \A i \in 1..Len(call.file.rows) :
                    Holders(db, call.data_type,
                            KeyOfRow(call.data_type, call.file, i)) # {}
          /\ call.data_type = "qc" =>
                Len(db.qc_results) = Len(call.pre.qc_results) + Len(call.file.rows)

\* a call failed at its second row after its first row had updated in place
\* a record that was stored before the call
C3_Witness ==
    /\ call.status = "failed"
    /\ call.staged >= 1
    /\ call.data_type \in Keyed
    /\ Holders(call.pre, call.data_type, KeyOfRow(call.data_type, call.file, 1)) # {}
    /\ \E j \in Holders(call.pre, call.data_type, KeyOfRow(call.data_type, call.file, 1)) :
           ~HoldsRow(call.pre, call.data_type, j, call.file.rows[1], call.at)

\* C7: a completed import of a file without the key column into an empty
\* table of a keyed kind stores exactly one record per row, the record of the
\* i-th row (0-based) keyed <PREFIX>i and holding that row's data.
C7_SynthesizedKeys ==
    (/\ call.status = "completed"
     /\ call.data_type \in Keyed
     /\ KeyColumn(call.data_type) \notin call.file.cols
     /\ call.pre[Table(call.data_type)] = <<>>)
    => /\ Len(db[Table(call.data_type)]) = Len(call.file.rows)
       /\ \A i \in 1..Len(call.file.rows) :
              LET hs == Holders(db, call.data_type,
                                Some(Prefixes[call.data_type] \o ToString(i - 1)))
              IN /\ Cardinality(hs) = 1
                 /\ \A j \in hs :
                        HoldsRow(db, call.data_type, j, call.file.rows[i], call.at)

\* a file of two different rows without key column was imported into an
\* empty table
C7_Witness ==
    /\ call.status = "completed"
    /\ call.data_type \in Keyed
    /\ KeyColumn(call.data_type) \notin call.file.cols
    /\ call.pre[Table(call.data_type)] = <<>>
    /\ Len(call.file.rows) = 2
    /\ call.file.rows[1] # call.file.rows[2]
    /\ Len(db[Table(call.data_type)]) = 2

\* C8: a completed qc import of n rows appends n QC results and leaves the
\* stored ones as they were; the same file imported twice in a row leaves
\* every row stored at least twice.
C8_QCAlwaysInserted ==
    (call.status = "completed" /\ call.data_type = "qc")
    => /\ Len(db.qc_results) = Len(call.pre.qc_results) + Len(call.file.rows)
       /\ SubSeq(db.qc_results, 1, Len(call.pre.qc_results)) = call.pre.qc_results
       /\ (prev.status = "completed" /\ prev.data_type = "qc" /\ prev.file = call.file)
             => Len(db.qc_results) >= 2 * Len(call.file.rows)

\* the same qc file of two rows with one batch_id was imported twice
C8_Witness ==
    /\ call.status = "completed"
    /\ call.data_type = "qc"
    /\ prev.status = "completed"
    /\ prev.data_type = "qc"
    /\ prev.file = call.file
    /\ Len(call.file.rows) = 2
    /\ "batch_id" \in call.file.cols
    /\ call.file.rows[1].batch_id = call.file.rows[2].batch_id
    /\ Len(db.qc_results) = 4

\* the audit records a call added
AuditAdded ==
    SubSeq(db.uploaded_files, Len(call.pre.uploaded_files) + 1, Len(db.uploaded_files))

\* C9 as stated: every completed call adds one audit record with the call's
\* filename and data_type and records_count equal to the number of rows of the
\* file, and the response carries the same values; a rejected or failed call
\* adds none.
C9_AuditCountsFileRows ==
    /\ call.status = "completed" =>
          /\ AuditAdded = <<AuditRecord(call.filename, call.data_type,
                                        Len(call.file.rows), call.at)>>
          /\ call.response = [filename |-> call.filename,
                              records_imported |-> Len(call.file.rows),
                              data_type |-> call.data_type]
    /\ call.status \in {"rejected", "failed"} => AuditAdded = <<>>

\* the number of rows upload_data processes: all of them for a kind it has a
\* branch for, none for another data_type
RowsProcessed ==
    IF call.data_type \in {"batch", "qc", "complaint", "capa", "equipment"}
    THEN Len(call.file.rows) ELSE 0

\* C9 amended: every completed call adds one audit record with the call's
\* filename and data_type and records_count equal to the number of rows
\* processed (the rows of the file for batch, qc, complaint, capa and
\* equipment, 0 for any other data_type), and the response carries the same
\* values; a rejected or failed call adds none.
C9_AuditCountsProcessedRows ==
    /\ call.status = "completed" =>
          /\ AuditAdded = <<AuditRecord(call.filename, call.data_type,
                                        RowsProcessed, call.at)>>
          /\ call.response = [filename |-> call.filename,
                              records_imported |-> RowsProcessed,
                              data_type |-> call.data_type]
    /\ call.status \in {"rejected", "failed"} => AuditAdded = <<>>

\* a completed import of two rows, the second of which updated the record the
\* first had staged, audited with records_count 2
C9_Witness ==
    /\ call.status = "completed"
    /\ call.data_type \in Keyed
    /\ Len(call.file.rows) = 2
    /\ KeyOfRow(call.data_type, call.file, 1) = KeyOfRow(call.data_type, call.file, 2)
    /\ Len(db[Table(call.data_type)]) = Len(call.pre[Table(call.data_type)]) + 1
    /\ db.uploaded_files[Len(db.uploaded_files)].records_count = 2

\* the file name does not end in the four characters ".csv"
NoCsvExtension(name) ==
    \/ Len(name) < 4
    \/ <<name[Len(name) - 3], name[Len(name) - 2], name[Len(name) - 1], name[Len(name)]>>
           # <<".", "c", "s", "v">>

\* C10: an upload whose file name has no .csv extension is rejected before
\* the file is read, and the store is left as it was.
C10_RejectedBeforeParsing ==
    (call.status # "none" /\ NoCsvExtension(call.filename))
    => /\ call.status = "rejected"
       /\ ~call.file_read
       /\ db = call.pre

\* an upload named without .csv extension, of a file with rows, was rejected
\* over a store that holds records
C10_Witness ==
    /\ call.status = "rejected"
    /\ NoCsvExtension(call.filename)
    /\ Len(call.file.rows) > 0
    /\ db.batches # <<>>

\* the last call completed the import of a file of a kind it has a branch for
Imported == call.status = "completed" /\ call.data_type \in Handled

\* row i of the file alone decides what its record holds: no other row of the
\* file carries its key (every row of a qc file has a record of its own)
Decisive(i) ==
    \/ call.data_type = "qc"
    \/ \A l \in 1..Len(call.file.rows) :
           KeyOfRow(call.data_type, call.file, l) = KeyOfRow(call.data_type, call.file, i)
               => l = i

\* the stored record of row i of the file
RecordOfRow(i) ==
    IF call.data_type = "qc"
    THEN db.qc_results[Len(call.pre.qc_results) + i]
    ELSE db[Table(call.data_type)][
             CHOOSE j \in Holders(db, call.data_type,
                                  KeyOfRow(call.data_type, call.file, i)) : TRUE]

\* what a cell of a file becomes in the store: a number or a date as its
\* value, a text as it is
StoredCell(cell) == IF cell.tag = "str" THEN Some(cell.str) ELSE Some(cell.num)

\* C15: after a completed import, for every row (the only one of the file
\* with its key) and every field with a
\* preferred and a fallback column, the stored field holds the preferred
\* column's value when the file has both columns, and the fallback column's
\* value when it has only the fallback; on the insert and on the update path.
C15_AliasPrecedence ==
    Imported =>
        \A i \in 1..Len(call.file.rows) :
            Decisive(i) =>
                \A f \in AliasFields(call.data_type) :
                    LET preferred == Columns(call.data_type)[f].cols[1]
                        fallback  == Columns(call.data_type)[f].cols[2]
                    IN /\ preferred \in call.file.cols =>
                             RecordOfRow(i)[f] = StoredCell(call.file.rows[i][preferred])
                       /\ (preferred \notin call.file.cols /\ fallback \in call.file.cols) =>
                             RecordOfRow(i)[f] = StoredCell(call.file.rows[i][fallback])

\* a file with the fallback columns only, whose first row updated a stored
\* record (changing its fields) and whose second row inserted one
C15_Witness ==
    /\ Imported
    /\ call.data_type \in Keyed
    /\ Len(call.file.rows) = 2
    /\ AliasFields(call.data_type) # {}
    /\ \A f \in AliasFields(call.data_type) :
           /\ Columns(call.data_type)[f].cols[1] \notin call.file.cols
           /\ Columns(call.data_type)[f].cols[2] \in call.file.cols
    /\ Holders(call.pre, call.data_type, KeyOfRow(call.data_type, call.file, 1)) # {}
    /\ Holders(call.pre, call.data_type, KeyOfRow(call.data_type, call.file, 2)) = {}
    /\ \E j \in 1..Len(call.pre[Table(call.data_type)]) :
           db[Table(call.data_type)][j] # call.pre[Table(call.data_type)][j]

\* the numeric fields of every kind
NumericFields ==
    [batch     |-> {"compression_force", "hardness", "weight", "thickness", "yield_percent"},
     qc        |-> {"dissolution", "assay", "hardness", "friability", "disintegration",
                    "uniformity"},
     complaint |-> {},
     capa      |-> {},
     equipment |-> {"deviation"}]

\* the categorical fields of every kind with their literal fallback strings
TextFallbacks ==
    [batch     |-> [product_name |-> "Paracetamol 500mg", machine |-> "Unknown",
                    operator |-> "Unknown", status |-> "released"],
     qc        |-> [result |-> "pass"],
     complaint |-> [category |-> "Unknown", severity |-> "low", description |-> "",
                    status |-> "open"],
     capa      |-> [type |-> "corrective", source |-> "Unknown", description |-> "",
                    root_cause |-> "", status |-> "open"],
     equipment |-> [name |-> "Unknown", status |-> "ok", parameter |-> ""]]

\* the file has none of the columns the field is resolved from
Absent(f) == \A c \in Range(Columns(call.data_type)[f].cols) : c \notin call.file.cols

\* every row of the file was counted and has a stored record
EveryRowImported ==
    /\ call.response.records_imported = Len(call.file.rows)
    /\ call.data_type \in Keyed =>
          \A i \in 1..Len(call.file.rows) :
              Holders(db, call.data_type, KeyOfRow(call.data_type, call.file, i)) # {}
    /\ call.data_type = "qc" =>
          Len(db.qc_results) = Len(call.pre.qc_results) + Len(call.file.rows)

\* the categorical fields absent from the file hold their fallback strings
TextFallbacksStored ==
    \A i \in 1..Len(call.file.rows) :
        Decisive(i) =>
            \A f \in DOMAIN TextFallbacks[call.data_type] :
                Absent(f) => RecordOfRow(i)[f] = Some(TextFallbacks[call.data_type][f])

\* C16 as stated: after a completed import every row is counted and stored,
\* every numeric field absent from the file is stored as 0, and every
\* categorical field absent from the file as its literal fallback string.
C16_NumericDefaultZero ==
    Imported =>
        /\ EveryRowImported
        /\ TextFallbacksStored
        /\ \A i \in 1..Len(call.file.rows) :
               Decisive(i) =>
                   \A f \in NumericFields[call.data_type] :
                       Absent(f) => RecordOfRow(i)[f] = Some(0)

\* C16 amended: after a completed import every row is counted and stored,
\* every numeric field absent from the file is stored as 0, except the
\* yield_percent of a batch, which is stored as 98, and every categorical
\* field absent from the file as its literal fallback string.
C16_NumericDefaults ==
    Imported =>
        /\ EveryRowImported
        /\ TextFallbacksStored
        /\ \A i \in 1..Len(call.file.rows) :
               Decisive(i) =>
                   \A f \in NumericFields[call.data_type] :
                       Absent(f) =>
                           RecordOfRow(i)[f] =
                               (IF call.data_type = "batch" /\ f = "yield_percent"
                                THEN Some(98) ELSE Some(0))

\* a batch file with the key column alone: two records stored with hardness 0,
\* yield_percent 98 and machine "Unknown"
C16_Witness ==
    /\ Imported
    /\ call.data_type = "batch"
    /\ call.file.cols = {"batch_id"}
    /\ Len(call.file.rows) = 2
    /\ Len(db.batches) = 2
    /\ \A j \in 1..2 :
           /\ db.batches[j].hardness = Some(0)
           /\ db.batches[j].yield_percent = Some(98)
           /\ db.batches[j].machine = Some("Unknown")

\* C17: a completed call leaves every record stored before it at its place, with its
\* natural key and its created_at, whether or not a row of the file updates
\* it; a record the call inserts carries the time of the call as created_at.
C17_CreatedAtImmutable ==
    call.status = "completed" =>
        \A kind \in Handled :
            LET before == call.pre[Table(kind)]
                after  == db[Table(kind)]
            IN /\ Len(after) >= Len(before)
               /\ \A j \in 1..Len(before) :
                      /\ after[j].created_at = before[j].created_at
                      /\ kind \in Keyed => after[j][KeyColumn(kind)] = before[j][KeyColumn(kind)]
               /\ \A j \in (Len(before) + 1)..Len(after) : after[j].created_at = Some(call.at)
               /\ \A j \in 1..Len(after) : after[j].created_at # Null

\* the second call updated, with other values, a record the first call had
\* inserted: the record still carries the time of the first call
C17_Witness ==
    /\ call.status = "completed"
    /\ call.at = 1
    /\ call.data_type \in Keyed
    /\ \E j \in 1..Len(call.pre[Table(call.data_type)]) :
           /\ db[Table(call.data_type)][j] # call.pre[Table(call.data_type)][j]
           /\ db[Table(call.data_type)][j].created_at = Some(0)

\* the tables of the five record kinds
EntityTables == {Table(kind) : kind \in Handled}

\* the last call had a .csv file name and a data_type upload_data has no
\* branch for
UnhandledType ==
    /\ call.status # "none"
    /\ EndsWith(call.filename, DotCsv)
    /\ call.data_type \notin Handled

\* C24: a call with a .csv file name and a data_type that is none of batch,
\* qc, complaint, capa, equipment completes; it leaves the tables of the five
\* record kinds as they were, appends one audit record with that file name,
\* that data_type and records_count 0, and answers with the file name, the
\* data_type and records_imported 0, however many rows the file has.
C24_UnhandledTypeAudited ==
    UnhandledType =>
        /\ call.status = "completed"
        /\ call.file_read
        /\ \A tbl \in EntityTables : db[tbl] = call.pre[tbl]
        /\ db.uploaded_files =
              Append(call.pre.uploaded_files,
                     AuditRecord(call.filename, call.data_type, 0, call.at))
        /\ call.response = [filename |-> call.filename, records_imported |-> 0,
                            data_type |-> call.data_type]

\* a two-row file was uploaded as environmental over a store that holds a
\* batch and an audit record: one more audit record, with count 0
C24_Witness ==
    /\ UnhandledType
    /\ call.status = "completed"
    /\ call.data_type = OtherType
    /\ Len(call.file.rows) = 2
    /\ call.pre.batches # <<>>
    /\ Len(call.pre.uploaded_files) = 1
    /\ Len(db.uploaded_files) = 2
    /\ db.uploaded_files[2].records_count = 0
    /\ db.batches = call.pre.batches

\* the two calls made on the empty store completed, each importing as batch
\* a file without the batch_id column
TwoKeylessBatchFiles ==
    /\ prev.status = "completed"
    /\ call.status = "completed"
    /\ prev.at = 0
    /\ prev.data_type = "batch"
    /\ call.data_type = "batch"
    /\ "batch_id" \notin prev.file.cols
    /\ "batch_id" \notin call.file.cols

\* the stored batch keyed BATCH-<i - 1> is one record, inserted at time born
\* and holding the row as imported at time t
BatchOfRow(i, row, t, born) ==
    LET hs == Holders(db, "batch", Some("BATCH-" \o ToString(i - 1)))
    IN /\ Cardinality(hs) = 1
       /\ \A j \in hs : /\ HoldsRow(db, "batch", j, row, t)
                         /\ db.batches[j].created_at = Some(born)

\* C23: after a batch file of n1 rows without batch_id and then one of n2
\* rows without batch_id, both imported starting from the empty store, the
\* store holds max(n1, n2) batches, keyed BATCH-0 .. BATCH-(max(n1, n2) - 1);
\* the first n2 are the records the first import inserted when it had as
\* many rows, now holding the rows of the second file; beyond n2 they hold
\* the rows of the first file.
C23_SynthesizedKeysCollide ==
    TwoKeylessBatchFiles =>
        LET n1 == Len(prev.file.rows)
            n2 == Len(call.file.rows)
        IN /\ Len(db.batches) = IF n1 > n2 THEN n1 ELSE n2
           /\ Len(call.pre.batches) = n1
           /\ \A i \in 1..n2 :
                  BatchOfRow(i, call.file.rows[i], call.at, IF i <= n1 THEN prev.at ELSE call.at)
           /\ \A i \in (n2 + 1)..n1 :
                  BatchOfRow(i, prev.file.rows[i], prev.at, prev.at)

\* two rows without batch_id were imported, then one row with other data:
\* two batches are stored, BATCH-0 no longer holding the first file's row
C23_Witness ==
    /\ TwoKeylessBatchFiles
    /\ Len(prev.file.rows) = 2
    /\ Len(call.file.rows) = 1
    /\ Len(db.batches) = 2
    /\ \E f \in MappedFields("batch") \ {"manufacturing_date"} :
           RowValues("batch", prev.file.rows[1], prev.at)[f].v
               # RowValues("batch", call.file.rows[1], call.at)[f].v
    /\ \E j \in Holders(db, "batch", Some("BATCH-0")) :
           /\ HoldsRow(db, "batch", j, call.file.rows[1], call.at)
           /\ ~HoldsRow(db, "batch", j, prev.file.rows[1], prev.at)

(***************************************************************************)
(* Properties of the trend analyzer (specification SpecTrend).             *)
(***************************************************************************)
\* the stored batches with a manufacturing date
Dated == {i \in 1..Len(db.batches) : db.batches[i].manufacturing_date # Null}

\* the stored batches inside the window of the last call: dated no earlier
\* than the latest date minus the window
Windowed ==
    {i \in Dated :
        \A j \in Dated :
            db.batches[i].manufacturing_date[1]
                >= db.batches[j].manufacturing_date[1] - trend.days}

\* those of them with a value for the requested field
Qualifying == {i \in Windowed : db.batches[i][trend.parameter] # Null}

\* C4: analyze_trends returns without raising for every table of batches, and
\* returns the error shape with empty dates and values whenever fewer than 2
\* batches exist, or fewer than 2 are inside the window, or fewer than 2 of
\* those have a value for the requested field.
C4_GatesNeverRaise ==
    trend.kind = "called" =>
        /\ trend.result.kind # "raised"
        /\ (Len(db.batches) < 2 \/ Cardinality(Windowed) < 2 \/ Cardinality(Qualifying) < 2)
              => /\ trend.result.kind = "error"
                 /\ trend.result.dates = <<>>
                 /\ trend.result.values = <<>>

\* the sums of the two halves of the values of the last result, split at
\* floor(count / 2)
Mid == Len(trend.result.values) \div 2
FirstSum == Sum(SubSeq(trend.result.values, 1, Mid))
LastSum == Sum(SubSeq(trend.result.values, Mid + 1, Len(trend.result.values)))
Classified == trend.kind = "called" /\ trend.result.kind = "result" /\ trend.result.count >= 5

Reports(direction, alert) ==
    trend.result.trend_direction = direction /\ trend.result.alert = alert

\* C5: with at least 5 values and a first-half average above 0, the result is
\* hausse with alert when the averages differ by more than +5 percent of the
\* first (20 * mid * last_sum > 21 * (count - mid) * first_sum), baisse with
\* alert when by less than -5 percent, stable without alert otherwise; a first
\* half averaging 100 with a second half averaging 106, 94, 102 gives hausse,
\* baisse, stable.
C5_Classification ==
    (Classified /\ FirstSum > 0) =>
        LET n    == trend.result.count
            up   == 20 * Mid * LastSum > 21 * (n - Mid) * FirstSum
            down == 20 * Mid * LastSum < 19 * (n - Mid) * FirstSum
        IN /\ up => Reports("hausse", TRUE)
           /\ down => Reports("baisse", TRUE)
           /\ (~up /\ ~down) => Reports("stable", FALSE)
           /\ (FirstSum = 100 * Mid /\ LastSum = 106 * (n - Mid)) => Reports("hausse", TRUE)
           /\ (FirstSum = 100 * Mid /\ LastSum = 94 * (n - Mid)) => Reports("baisse", TRUE)
           /\ (FirstSum = 100 * Mid /\ LastSum = 102 * (n - Mid)) => Reports("stable", FALSE)

\* five values, the first two averaging 100 and the last three 102, reported
\* stable
C5_Witness ==
    /\ Classified
    /\ trend.result.count = 5
    /\ FirstSum = 200
    /\ LastSum = 306
    /\ Reports("stable", FALSE)

\* C6: with at least 5 values and a first-half average of 0 the call does not
\* raise and reports stable without alert, whatever the second half holds.
C6_ZeroFirstAverage ==
    trend.kind = "called" =>
        /\ Cardinality(Qualifying) >= 5 => trend.result.kind = "result"
        /\ (Classified /\ FirstSum = 0) => Reports("stable", FALSE)

\* five values, the first two 0 and the others not all 0, reported stable
C6_Witness ==
    /\ Classified
    /\ trend.result.count = 5
    /\ FirstSum = 0
    /\ LastSum > 0
    /\ Reports("stable", FALSE)

\* the date and the value of the requested field of a stored batch
PairOf(i) == <<db.batches[i].manufacturing_date[1], db.batches[i][trend.parameter][1]>>

\* C20: in a result that is not the error shape, dates and values have the
\* same length, count is that length, the (date, value) pairs are those of the
\* batches in the window that have a value, each as often as it is stored,
\* the dates do not decrease, and average (rounded to hundredths), min and max
\* are those of the values.
C20_AlignedSeries ==
    (trend.kind = "called" /\ trend.result.kind = "result") =>
        LET r == trend.result
            n == Len(r.values)
        IN /\ Len(r.dates) = n
           /\ r.count = n
           /\ n = Cardinality(Qualifying)
           /\ \A i \in 1..(n - 1) : r.dates[i] <= r.dates[i + 1]
           /\ \A q \in Qualifying :
                  Cardinality({i \in 1..n : <<r.dates[i], r.values[i]>> = PairOf(q)})
                      = Cardinality({p \in Qualifying : PairOf(p) = PairOf(q)})
           /\ 2 * (r.average * n - 100 * Sum(r.values)) \in (-n)..n
           /\ \A i \in 1..n : r.min <= 100 * r.values[i] /\ 100 * r.values[i] <= r.max
           /\ \E i \in 1..n : r.min = 100 * r.values[i]
           /\ \E i \in 1..n : r.max = 100 * r.values[i]

\* a result over batches stored latest first, some without a value: the
\* series starts at the earlier date and its values differ
C20_Witness ==
    /\ trend.kind = "called"
    /\ trend.result.kind = "result"
    /\ trend.result.count >= 3
    /\ trend.result.count < Cardinality(Windowed)
    /\ trend.result.dates[1] < trend.result.dates[trend.result.count]
    /\ trend.result.values[1] # trend.result.values[trend.result.count]
    /\ db.batches[1].manufacturing_date = Some(41)
    /\ trend.result.min < trend.result.average
    /\ trend.result.average < trend.result.max

\* C21: in every result that is not the error shape, trend_direction is one
\* of hausse, baisse, stable and alert is true exactly when it is not stable;
\* a result over 2, 3 or 4 values is stable without alert, whatever the
\* values are.
C21_AlertIffNotStable ==
    (trend.kind = "called" /\ trend.result.kind = "result") =>
        /\ trend.result.trend_direction \in {"hausse", "baisse", "stable"}
        /\ trend.result.alert \in BOOLEAN
        /\ trend.result.alert <=> (trend.result.trend_direction # "stable")
        /\ trend.result.count >= 2
        /\ trend.result.count \in 2..4 => Reports("stable", FALSE)

\* four values whose second half averages more than 5 percent above the
\* first, reported stable without alert
C21_Witness ==
    /\ trend.kind = "called"
    /\ trend.result.kind = "result"
    /\ trend.result.count = 4
    /\ FirstSum > 0
    /\ 20 * Mid * LastSum > 21 * (trend.result.count - Mid) * FirstSum
    /\ Reports("stable", FALSE)

\* the stored batches holding the latest manufacturing date
Latest ==
    {i \in Dated :
        \A j \in Dated :
            db.batches[j].manufacturing_date[1] <= db.batches[i].manufacturing_date[1]}

\* the records of the list filtered of the last call
Kept == {trend.filtered[i] : i \in 1..Len(trend.filtered)}

\* a call that got as far as the filtering
Filtering ==
    /\ trend.kind = "called"
    /\ trend.result.kind # "raised"
    /\ db.batches # <<>>

\* the kept records are those dated no earlier than the latest stored date
\* minus the window, each once; none of them is without a date
KeepsTheWindow ==
    /\ Kept = {db.batches[i] : i \in Windowed}
    /\ Len(trend.filtered) = Cardinality(Windowed)
    /\ \A i \in 1..Len(db.batches) :
           db.batches[i].manufacturing_date = Null => db.batches[i] \notin Kept

\* C22 as stated: a call that reaches the filtering keeps exactly the batches
\* with a date >= max_date - days, max_date being the latest date stored,
\* never a batch without a date, and always the batches holding max_date.
C22_WindowAnchoredOnData ==
    Filtering =>
        /\ KeepsTheWindow
        /\ \A i \in Latest : db.batches[i] \in Kept

\* C22 for the windows it holds for: as above, the batches holding max_date
\* being kept when days is not negative.
C22_WindowAnchoredOnDataFromZero ==
    Filtering =>
        /\ KeepsTheWindow
        /\ trend.days >= 0 => \A i \in Latest : db.batches[i] \in Kept

\* a 30-day window over batches dated 41, 40 and 1 and one without a date,
\* taken at time 0: the two latest are kept, the others are not
C22_Witness ==
    /\ Filtering
    /\ trend.days = 30
    /\ now = 0
    /\ \E i \in Dated : db.batches[i].manufacturing_date = Some(1)
    /\ \E i \in 1..Len(db.batches) : db.batches[i].manufacturing_date = Null
    /\ {r.manufacturing_date : r \in Kept} = {Some(40), Some(41)}
    /\ Latest # {}
    /\ \A i \in Latest : db.batches[i] \in Kept

(***************************************************************************)
(* Properties of the narrative summary stream (specification SpecStream).  *)
(***************************************************************************)
IsText(e) == e.type = "text"
IsTerminal(e) == e.type \in {"done", "error"}
HasText(c) == c # ""

\* C11: the events of a stream are text events, carrying the non-empty chunk
\* texts in the order the chunks arrived, followed by at most one terminal
\* event (done or error) after which there is no event; a stream consumed to
\* its end has exactly one terminal event; a stream in which a failure
\* occurred ends with the error event and has no done event, also when text
\* events came before the failure; a stream without failure ends with done.
C11_StreamProtocol ==
    LET ev    == stream.events
        n     == Len(ev)
        texts == SelectSeq(ev, IsText)
    IN /\ \A i \in 1..(n - 1) : IsText(ev[i])
       /\ [i \in 1..Len(texts) |-> texts[i].text] = SelectSeq(stream.arrived, HasText)
       /\ stream.pc = "closed" => (n >= 1 /\ IsTerminal(ev[n]))
       /\ stream.failed => (n >= 1 /\ ev[n].type = "error")
       /\ (stream.pc = "closed" /\ ~stream.failed) => ev[n].type = "done"
       /\ stream.api_calls <= 1

\* a stream that delivered two fragments (an empty chunk arrived as well),
\* then failed, and was consumed to its end
C11_Witness ==
    /\ stream.pc = "closed"
    /\ stream.failed
    /\ Len(stream.events) = 3
    /\ IsText(stream.events[1])
    /\ IsText(stream.events[2])
    /\ stream.events[1].text # stream.events[2].text
    /\ \E i \in 1..Len(stream.arrived) : stream.arrived[i] = ""

(***************************************************************************)
(* Properties of the statistics, chat and report services (specification   *)
(* SpecService).                                                           *)
(***************************************************************************)
\* the last call was a call of the operation
Called(op) == reply.kind = "called" /\ reply.op = op

\* something fails in the call of chat_with_gemini or generate_report: the
\* context cannot be built, the statistics (generate_report only) cannot be
\* computed, or the generation API does not deliver a text
CallFails ==
    \/ ~get_data_context(db).ok
    \/ (reply.op = "generate_report" /\ get_full_stats(db).kind = "raised")
    \/ reply.api # "text"

\* C12: chat_with_gemini and generate_report return a text whatever happens:
\* the generated text when nothing fails, their error message when building
\* the context, computing the statistics or the generation call fails; they
\* never raise, and they call the generation API at most once, and not at all
\* when the failure comes before the call.
C12_NeverPropagates ==
    (Called("chat_with_gemini") \/ Called("generate_report")) =>
        /\ reply.result.kind = "returned"
        /\ reply.result.api_calls <= 1
        /\ CallFails =>
              /\ reply.result.error
              /\ reply.result.text = (IF reply.op = "chat_with_gemini"
                                      THEN "Erreur de connexion a Gemini"
                                      ELSE "Erreur lors de la generation du rapport")
        /\ ~CallFails =>
              /\ ~reply.result.error
              /\ reply.result.text = "answer"
              /\ reply.result.api_calls = 1

\* chat_with_gemini returned its error message because building the context
\* raised, over a store with batches, without calling the generation API
C12_Witness ==
    /\ Called("chat_with_gemini")
    /\ db.batches # <<>>
    /\ reply.api = "text"
    /\ reply.result.kind = "returned"
    /\ reply.result.error
    /\ reply.result.exception = "AttributeError"
    /\ reply.result.api_calls = 0

\* the mean of the non-null values of a batch field, in hundredths: their sum
\* over their number (a stored 0 counts), 0 when there is none
NonNullMean(field) ==
    LET kept == {i \in 1..Len(db.batches) : db.batches[i][field] # Null}
        vals == [i \in 1..Len(db.batches) |->
                    IF i \in kept THEN db.batches[i][field][1] ELSE 0]
    IN IF kept = {} THEN 0 ELSE Round2(Sum(vals), Cardinality(kept))

\* C13: get_full_stats returns a summary in which avg_hardness and avg_yield
\* are the sum of the non-null values over the number of batch records whose
\* value is non-null (a stored 0 counts in the denominator), 0 when no record
\* contributes.
C13_MeansOverNonNull ==
    Called("get_full_stats") =>
        /\ reply.result.kind = "stats"
        /\ reply.result.avg_hardness = NonNullMean("hardness")
        /\ reply.result.avg_yield = NonNullMean("yield_percent")

\* the stored QC results within the specifications
WithinSpecs ==
    {i \in 1..Len(db.qc_results) :
        /\ db.qc_results[i].assay # Null
        /\ db.qc_results[i].dissolution # Null
        /\ 95 <= db.qc_results[i].assay[1]
        /\ db.qc_results[i].assay[1] <= 105
        /\ db.qc_results[i].dissolution[1] >= 80}

\* C14: get_full_stats returns a summary whose qc_pass_rate (in tenths of a
\* percent) is 100 times the number of stored QC results with assay in
\* [95, 105] and dissolution >= 80 over the number of stored QC results, 0
\* when there are none; 4 results of which 2 qualify give 50.0.
C14_QCPassRate ==
    Called("get_full_stats") =>
        /\ reply.result.kind = "stats"
        /\ Len(db.qc_results) = 0 => reply.result.qc_pass_rate = 0
        /\ Len(db.qc_results) > 0 =>
              2 * Len(db.qc_results) * reply.result.qc_pass_rate
                  \in (2000 * Cardinality(WithinSpecs) - Len(db.qc_results))
                          ..(2000 * Cardinality(WithinSpecs) + Len(db.qc_results))
        /\ (Len(db.qc_results) = 4 /\ Cardinality(WithinSpecs) = 2)
              => reply.result.qc_pass_rate = 500

\* C18: analyze_trends and get_full_stats are read-only: a call leaves every
\* table of the store as it was, and leaves the session it ran on with
\* nothing staged and nothing changed, also when it returns the error shape
\* or raises.
C18_ReadOnly ==
    [][/\ db' = db
       /\ trend'.kind = "called" => trend'.clean
       /\ (reply'.kind = "called" /\ reply'.op = "get_full_stats") => reply'.clean]_vars

\* analyze_trends returned the error shape and get_full_stats was called over
\* a store that holds batches and complaints
C18_Witness ==
    /\ trend.kind = "called"
    /\ trend.result.kind = "error"
    /\ Called("get_full_stats")
    /\ db.batches # <<>>
    /\ db.complaints # <<>>

Closed == <<"c", "l", "o", "s", "e", "d">>

\* the number of stored CAPAs with the status
CAPAsWith(status) == Cardinality({i \in 1..Len(db.capas) : db.capas[i].status = status})

\* the complaints whose status is "open" whatever the case of its letters
OpenComplaints ==
    {i \in 1..Len(db.complaints) :
        /\ db.complaints[i].status # Null
        /\ Lower(Chars(db.complaints[i].status[1])) = <<"o", "p", "e", "n">>}

\* C19 as stated: in a returned summary complaints_open is the number of
\* complaints whose status is "open" compared case-insensitively, and
\* capas_open the number of CAPAs whose status does not contain "closed"
\* compared case-insensitively.
C19_OpenCounts ==
    (Called("get_full_stats") /\ reply.result.kind = "stats") =>
        /\ reply.result.complaints_open = Cardinality(OpenComplaints)
        /\ reply.result.capas_open =
              Cardinality({i \in 1..Len(db.capas) :
                  \/ db.capas[i].status = Null
                  \/ ~Contains(Lower(Chars(db.capas[i].status[1])), Closed)})

\* C19 amended: in a returned summary complaints_open is the number of
\* complaints whose status is "open" compared case-insensitively, and
\* capas_open the number of CAPAs that have a non-empty status which does not
\* contain "closed" compared case-insensitively: "Closed - Effective" and
\* "closed" are not open, "In Progress" is open, a CAPA without status is not
\* counted.
C19_OpenCountsWithStatus ==
    (Called("get_full_stats") /\ reply.result.kind = "stats") =>
        /\ reply.result.complaints_open = Cardinality(OpenComplaints)
        /\ reply.result.capas_open =
              Cardinality({i \in 1..Len(db.capas) :
                  /\ db.capas[i].status # Null
                  /\ db.capas[i].status # Some("")
                  /\ ~Contains(Lower(Chars(db.capas[i].status[1])), Closed)})
        /\ CAPAsWith(Some("In Progress")) <= reply.result.capas_open
        /\ reply.result.capas_open
              <= Len(db.capas) - CAPAsWith(Some("Closed - Effective"))
                     - CAPAsWith(Some("closed")) - CAPAsWith(Null)

\* a summary over complaints OPEN and reopened and CAPAs "Closed - Effective"
\* and "In Progress": one open complaint, one open CAPA
C19_Witness ==
    /\ Called("get_full_stats")
    /\ reply.result.kind = "stats"
    /\ \E i, j \in 1..Len(db.complaints) :
           db.complaints[i].status = Some("OPEN") /\ db.complaints[j].status = Some("reopened")
    /\ \E i, j \in 1..Len(db.capas) :
           /\ db.capas[i].status = Some("Closed - Effective")
           /\ db.capas[j].status = Some("In Progress")
    /\ reply.result.complaints_open = 1
    /\ reply.result.capas_open = 1


====
